---- MODULE Spec2Model ----
(***************************************************************************)
(* Model of the schedule generator of src/src/schedule-analysis.js:        *)
(* generateBalancedSchedule (retry loop), tryGenerateSchedule (one attempt *)
(* over the slot list), selectPair / assignGame (one slot), and            *)
(* optimizeHomeAwayBalance (home/away flips), with the verification        *)
(* helpers they call, and the analysis functions computeSlotFairness and   *)
(* verifyNoDoubleheaders called on their own.                              *)
(*                                                                         *)
(* Conventions.                                                            *)
(*  - A date is a day number counted from a Monday, so that the Monday of  *)
(*    its calendar week (getWeekKey) is d - (d % 7).                       *)
(*  - JavaScript arrays are 0-based: slot ordinals, lock keys, slotIndex   *)
(*    and the loop counter i are kept 0-based; position k of a TLA+        *)
(*    sequence is the array element k - 1.                                 *)
(*  - Every call of the seeded generator rng() is a nondeterministic       *)
(*    choice (\E) over the outcomes that call can have.                    *)
(*  - Scores are the source's scores multiplied by 1000, so that they are  *)
(*    integers.                                                            *)
(***************************************************************************)
EXTENDS Integers, Sequences, FiniteSets, TLC

VARIABLES
    \* inputs of generateBalancedSchedule
    teams, slots, gamesPerPair, maxAttempts, lockRequirements, optimizeHomeAway,
    \* generateBalancedSchedule
    pc, attempt, failures, result, error,
    \* tryGenerateSchedule (one attempt)
    i, pairs, teamTargetCounts, teamGamesRemaining, assignments,
    teamsByDate, teamsByWeek, homeAwayCounts,
    \* optimizeHomeAwayBalance
    games, maxFlips, gamesCopy, improved, flips, optPc

inputVars == <<teams, slots, gamesPerPair, maxAttempts, lockRequirements, optimizeHomeAway>>
genVars == <<pc, attempt, failures, result, error>>
attemptVars == <<i, pairs, teamTargetCounts, teamGamesRemaining, assignments,
                 teamsByDate, teamsByWeek, homeAwayCounts>>
optVars == <<games, maxFlips, gamesCopy, improved, flips, optPc>>
vars == <<inputVars, genVars, attemptVars, optVars>>

-----------------------------------------------------------------------------
(* Bounds of the model *)

\* standalone optimizer runs: longest input game list, largest maxFlips argument
MaxOptGames == 3
MaxFlipsArg == 3

\* generator runs: longest slot list, largest maxAttempts
MaxSlots == 3
MaxAttempts == 2

\* longest game list handed to computeSlotFairness
MaxFairGames == 5
\* longest game list handed to verifyNoDoubleheaders on its own
MaxDhGames == 3

-----------------------------------------------------------------------------
(* Values *)

\* team names in localeCompare order
TeamNames == <<"A", "B", "C", "D">>

\* a lock's away/home when the lock does not name one (undefined: falsy)
NoTeam == ""

\* lockRequirements.get(k) when the map has no entry for k
NoLock == [requiredTeams |-> {}, away |-> NoTeam, home |-> NoTeam, none |-> TRUE]

\* an entry of lockRequirements
Lock(required, away, home) ==
    [requiredTeams |-> required, away |-> away, home |-> home, none |-> FALSE]

\* slotIndex: null of a failure record
NoSlot == -1

DEFAULT_TARGET_SLOT == "7:00PM - 9:00PM"
OtherSlot == "5:00PM - 7:00PM"

Abs(x) == IF x < 0 THEN -x ELSE x

Max2(a, b) == IF a > b THEN a ELSE b

RECURSIVE Dedup(_)
\* the elements of seq in order of first occurrence (insertion order of a Set / Map);
\* rest is bound by a quantifier so that it is evaluated once
Dedup(seq) ==
    IF seq = <<>> THEN <<>>
    ELSE CHOOSE out \in
            {IF \E k \in 1..Len(rest) : rest[k] = seq[Len(seq)]
             THEN rest ELSE Append(rest, seq[Len(seq)]) :
                rest \in {Dedup(SubSeq(seq, 1, Len(seq) - 1))}} : TRUE

Range(seq) == {seq[k] : k \in 1..Len(seq)}

RECURSIVE SumOver(_, _)
SumOver(S, f) ==
    IF S = {} THEN 0
    ELSE LET x == CHOOSE y \in S : TRUE IN f[x] + SumOver(S \ {x}, f)

-----------------------------------------------------------------------------
(* computeHomeAwayBalance *)

\* keys of the balance Map in insertion order: home teams by first appearance,
\* then away teams not yet present
BalanceKeys(gs) ==
    Dedup([k \in 1..Len(gs) |-> gs[k].home] \o [k \in 1..Len(gs) |-> gs[k].away])

computeHomeAwayBalance_skipsLastGame(gs) ==
    LET seen == SubSeq(gs, 1, Len(gs) - 1)
    IN [t \in Range(BalanceKeys(gs)) |->
          LET home == Cardinality({k \in 1..Len(seen) : seen[k].home = t})
              away == Cardinality({k \in 1..Len(seen) : seen[k].away = t})
          IN [home |-> home, away |-> away, diff |-> Abs(home - away)]]

computeHomeAwayBalance(gs) ==
    [t \in Range(BalanceKeys(gs)) |->
        LET home == Cardinality({k \in 1..Len(gs) : gs[k].home = t})
            away == Cardinality({k \in 1..Len(gs) : gs[k].away = t})
        IN [home |-> home, away |-> away, diff |-> Abs(home - away)]]

\* totalImbalance accumulated over balance.forEach
TotalImbalance(balance) ==
    SumOver(DOMAIN balance, [t \in DOMAIN balance |-> balance[t].diff])

-----------------------------------------------------------------------------
(* optimizeHomeAwayBalance *)

\* gamesCopy = games.map((g) => ({ ...g }))
CopyGames(gs) == [k \in 1..Len(gs) |-> gs[k]]

\* gameLocks.get(idx): the entries of lockRequirements whose key is below the
\* length of the game list, looked up by the game's position
GameLock(locks, n, idx) ==
    IF idx \in DOMAIN locks /\ idx < n THEN locks[idx] ELSE NoLock

RECURSIVE DiffBuckets(_, _, _)
\* stable sort of keys by descending diff, entries with diff 0 dropped
DiffBuckets(keys, balance, d) ==
    IF d <= 0 THEN <<>>
    ELSE SelectSeq(keys, LAMBDA t : balance[t].diff = d) \o DiffBuckets(keys, balance, d - 1)

\* Array.from(balance.entries()).filter(diff > 0).sort((a, b) => b.diff - a.diff)
Imbalanced(gs, balance) ==
    CHOOSE sorted \in {DiffBuckets(keys, balance, Len(gs)) : keys \in {BalanceKeys(gs)}} : TRUE

\* the test without the look at the opponent's balance
IsCandidate_anyOpponent(gs, locks, balance, team, idx) ==
    LET game == gs[idx + 1]
        lock == GameLock(locks, Len(gs), idx)
    IN /\ ~(lock.none = FALSE /\ lock.away # NoTeam /\ lock.home # NoTeam)
       /\ \/ balance[team].away > balance[team].home /\ game.away = team
          \/ balance[team].home > balance[team].away /\ game.home = team

\* the test made on gamesCopy[idx] for `team` inside gamesCopy.forEach
IsCandidate(gs, locks, balance, team, idx) ==
    LET game == gs[idx + 1]
        lock == GameLock(locks, Len(gs), idx)
        needsMoreHome == balance[team].away > balance[team].home
        needsMoreAway == balance[team].home > balance[team].away
        \* oppBalance && oppBalance.away > oppBalance.home
        oppAwayHeavy(o) == o \in DOMAIN balance /\ balance[o].away > balance[o].home
        oppHomeHeavy(o) == o \in DOMAIN balance /\ balance[o].home > balance[o].away
    IN /\ ~(lock.none = FALSE /\ lock.away # NoTeam /\ lock.home # NoTeam)
       /\ \/ needsMoreHome /\ game.away = team /\ ~oppAwayHeavy(game.home)
          \/ needsMoreAway /\ game.home = team /\ ~oppHomeHeavy(game.away)

\* the candidates array built for `team`: game positions (0-based) in order
Candidates(gs, locks, balance, team) ==
    SelectSeq([k \in 1..Len(gs) |-> k - 1],
              LAMBDA idx : IsCandidate(gs, locks, balance, team, idx))

\* the team of the for-of loop over `imbalanced` at which a flip is made: the
\* first one with a non-empty candidates array; NoTeam when there is none
FlipTeam(gs, locks, balance) ==
    CHOOSE team \in
        {IF \A k \in 1..Len(imbalanced) :
                Candidates(gs, locks, balance, imbalanced[k]) = <<>>
         THEN NoTeam
         ELSE imbalanced[CHOOSE k \in 1..Len(imbalanced) :
                            /\ Candidates(gs, locks, balance, imbalanced[k]) # <<>>
                            /\ \A m \in 1..(k - 1) :
                                 Candidates(gs, locks, balance, imbalanced[m]) = <<>>] :
            imbalanced \in {Imbalanced(gs, balance)}} : TRUE

FlipGame_keepsAway(game) == [game EXCEPT !.home = game.away]

\* { ...game, home: game.away, away: game.home }
FlipGame(game) == [game EXCEPT !.home = game.away, !.away = game.home]

\* the loop condition without its bound on the flips
OptLoopOn_unbounded == optPc = "loop" /\ improved

\* while (improved && flips < maxFlips)
OptLoopOn == optPc = "loop" /\ improved /\ flips < maxFlips

\* one iteration of the while loop that ends in a flip
\* (\E x \in {e} names the value of e)
OptFlip ==
    /\ OptLoopOn
    /\ \E balance \in {computeHomeAwayBalance(gamesCopy)} :
       \E team \in {FlipTeam(gamesCopy, lockRequirements, balance)} :
          /\ TotalImbalance(balance) # 0
          /\ team # NoTeam
          /\ \E candidates \in {Candidates(gamesCopy, lockRequirements, balance, team)} :
             \E c \in 1..Len(candidates) :    \* Math.floor(rng() * candidates.length)
                gamesCopy' = [gamesCopy EXCEPT ![candidates[c] + 1] = FlipGame(@)]
    /\ improved' = TRUE
    /\ flips' = flips + 1
    /\ UNCHANGED <<games, maxFlips, optPc>>
    /\ UNCHANGED <<inputVars, genVars, attemptVars>>

\* the loop ends: its condition is false, or the iteration breaks on a total
\* imbalance of 0, or no imbalanced team has a candidate; the function returns
\* { games: gamesCopy, flips }
OptStop ==
    /\ optPc = "loop"
    /\ \E balance \in {computeHomeAwayBalance(gamesCopy)} :
          \/ ~OptLoopOn
          \/ TotalImbalance(balance) = 0
          \/ FlipTeam(gamesCopy, lockRequirements, balance) = NoTeam
    /\ improved' = IF OptLoopOn THEN FALSE ELSE improved
    /\ optPc' = "done"
    /\ UNCHANGED <<games, maxFlips, gamesCopy, flips>>
    /\ UNCHANGED <<inputVars, genVars, attemptVars>>

-----------------------------------------------------------------------------
(* summarizeSlotDistribution and computeSlotFairness *)

\* counts: for every team with a game in `slot`, the number of its games there
summarizeSlotDistribution(gs, slot) ==
    [t \in {gs[k].away : k \in {n \in 1..Len(gs) : gs[n].slot = slot}}
           \cup {gs[k].home : k \in {n \in 1..Len(gs) : gs[n].slot = slot}} |->
        Cardinality({k \in 1..Len(gs) : gs[k].slot = slot /\ gs[k].away = t})
      + Cardinality({k \in 1..Len(gs) : gs[k].slot = slot /\ gs[k].home = t})]

\* the rating chain with range 3 still counted as fair
FairnessRating_fairAtThree(range) ==
    IF range = 0 THEN [rating |-> "Perfect", fair |-> TRUE]
    ELSE IF range = 1 THEN [rating |-> "Excellent", fair |-> TRUE]
    ELSE IF range = 2 THEN [rating |-> "Good", fair |-> TRUE]
    ELSE IF range = 3 THEN [rating |-> "Fair", fair |-> TRUE]
    ELSE [rating |-> "Poor", fair |-> FALSE]

\* the if / else-if chain on range that sets rating and fair
FairnessRating(range) ==
    IF range = 0 THEN [rating |-> "Perfect", fair |-> TRUE]
    ELSE IF range = 1 THEN [rating |-> "Excellent", fair |-> TRUE]
    ELSE IF range = 2 THEN [rating |-> "Good", fair |-> TRUE]
    ELSE IF range = 3 THEN [rating |-> "Fair", fair |-> FALSE]
    ELSE [rating |-> "Poor", fair |-> FALSE]

\* the record computeSlotFairness returns, without its mean and stdDev (rounded
\* reals that nothing else reads)
computeSlotFairness(gs, slot) ==
    LET distribution == summarizeSlotDistribution(gs, slot)
        counts == {distribution[t] : t \in DOMAIN distribution}
    IN IF counts = {}
       THEN [rating |-> "N/A", range |-> 0, min |-> 0, max |-> 0, fair |-> TRUE]
       ELSE LET min == CHOOSE c \in counts : \A d \in counts : c <= d
                max == CHOOSE c \in counts : \A d \in counts : c >= d
            IN [rating |-> FairnessRating(max - min).rating, range |-> max - min,
                min |-> min, max |-> max, fair |-> FairnessRating(max - min).fair]

-----------------------------------------------------------------------------
(* verifyNoDoubleheaders *)

\* the violations with only the home side of each game pushed
DoubleheaderViolations_homeOnly(gs) ==
    LET appearances(d, t) ==
            Cardinality({k \in 1..Len(gs) : gs[k].date = d /\ gs[k].home = t})
        dates == {gs[k].date : k \in 1..Len(gs)}
        names == {gs[k].away : k \in 1..Len(gs)} \cup {gs[k].home : k \in 1..Len(gs)}
    IN {[date |-> d, team |-> t, gameCount |-> appearances(d, t)] :
            <<d, t>> \in {x \in dates \X names : appearances(x[1], x[2]) > 1}}

\* the violations array: one entry per (date, team) whose list of game indices
\* (one push for the away side, one for the home side of each game) is longer than 1
DoubleheaderViolations(gs) ==
    LET appearances(d, t) ==
            Cardinality({k \in 1..Len(gs) : gs[k].date = d /\ gs[k].away = t})
          + Cardinality({k \in 1..Len(gs) : gs[k].date = d /\ gs[k].home = t})
        dates == {gs[k].date : k \in 1..Len(gs)}
        names == {gs[k].away : k \in 1..Len(gs)} \cup {gs[k].home : k \in 1..Len(gs)}
    IN {[date |-> d, team |-> t, gameCount |-> appearances(d, t)] :
            <<d, t>> \in {x \in dates \X names : appearances(x[1], x[2]) > 1}}

verifyNoDoubleheaders_alwaysValid(gs) == [valid |-> TRUE, violations |-> {}]

verifyNoDoubleheaders(gs) ==
    [valid |-> DoubleheaderViolations(gs) = {}, violations |-> DoubleheaderViolations(gs)]

-----------------------------------------------------------------------------
(* helpers of tryGenerateSchedule *)

\* Math.floor / Math.ceil of (slotGameCount * 2) / teamCount
computeTargetRange(teamCount, slotGameCount) ==
    LET appearances == slotGameCount * 2
    IN IF teamCount = 0 THEN [min |-> 0, max |-> 0]
       ELSE [min |-> appearances \div teamCount,
             max |-> (appearances + teamCount - 1) \div teamCount]

\* Array.from(new Set(teams))
toTeamArray(ts) == Dedup(ts)

\* all unordered pairs of the teams sorted by name, (i, j) with i < j, i outermost
createPairState(ts, perPair) ==
    LET sorted == SelectSeq(TeamNames, LAMBDA t : t \in Range(ts))
        n == Len(sorted)
        ij == {p \in (1..n) \X (1..n) : p[1] < p[2]}
        position(p) == (p[1] - 1) * n - ((p[1] * (p[1] - 1)) \div 2) + (p[2] - p[1])
    IN [k \in 1..Cardinality(ij) |->
          LET p == CHOOSE q \in ij : position(q) = k
          IN [teams |-> <<sorted[p[1]], sorted[p[2]]>>, remaining |-> perPair]]

needScore(count, minTarget) == Max2(0, minTarget - count)

projectedExcess(count, delta, maxTarget) == Max2(0, (count + delta) - maxTarget)

\* the Monday of the date's calendar week
\* every date in one and the same week
getWeekKey_oneWeek(date) == 0

getWeekKey(date) == date - (date % 7)

\* a Map or Set with no entries
NoCounts == [t \in {} |-> 0]

\* map.get(key) || 0 / the Set or Map created on first use
GetOr(map, key, default) == IF key \in DOMAIN map THEN map[key] ELSE default

Put(map, key, value) == [k \in DOMAIN map \cup {key} |-> IF k = key THEN value ELSE map[k]]

\* lockRequirements.get(slot.index ?? i)
SlotLock(locks, slot) == IF slot.index \in DOMAIN locks THEN locks[slot.index] ELSE NoLock

\* the set allLockedTeams built from every entry of lockRequirements
AllLockedTeams(locks) == UNION {locks[k].requiredTeams : k \in DOMAIN locks}

TargetSlots(sl) == Cardinality({k \in 1..Len(sl) : sl[k].slot = DEFAULT_TARGET_SLOT})

MinTarget == computeTargetRange(Len(toTeamArray(teams)), TargetSlots(slots)).min
MaxTarget == computeTargetRange(Len(toTeamArray(teams)), TargetSlots(slots)).max

-----------------------------------------------------------------------------
(* selectPair *)

\* the arguments selectPair is called with for slot number k (0-based)
SelectArgs(k) ==
    LET slot == slots[k + 1]
        slotLock == SlotLock(lockRequirements, slot)
    IN [isTargetSlot |-> slot.slot = DEFAULT_TARGET_SLOT,
        teamTargetCounts |-> teamTargetCounts,
        minTarget |-> MinTarget,
        maxTarget |-> MaxTarget,
        teamGamesRemaining |-> teamGamesRemaining,
        requiredTeams |-> slotLock.requiredTeams,
        teamsPlayedToday |-> GetOr(teamsByDate, slot.date, {}),
        allLockedTeams |-> AllLockedTeams(lockRequirements),
        teamsThisWeek |-> GetOr(teamsByWeek, getWeekKey(slot.date), NoCounts)]

\* the filter that rejects the entry, in the order of the source, or "ok"
Rejection(entry, a) ==
    LET forced == a.requiredTeams # {}
        teamA == entry.teams[1]
        teamB == entry.teams[2]
        weeklyCountA == GetOr(a.teamsThisWeek, teamA, 0)
        weeklyCountB == GetOr(a.teamsThisWeek, teamB, 0)
        delta == IF a.isTargetSlot THEN 1 ELSE 0
        projectedA == projectedExcess(a.teamTargetCounts[teamA], delta, a.maxTarget)
        projectedB == projectedExcess(a.teamTargetCounts[teamB], delta, a.maxTarget)
    IN IF entry.remaining <= 0 THEN "noGames"
       ELSE IF forced /\ ~(a.requiredTeams \subseteq {teamA, teamB}) THEN "wrongTeams"
       ELSE IF teamA \in a.teamsPlayedToday \/ teamB \in a.teamsPlayedToday THEN "sameDay"
       ELSE IF ~forced /\ (teamA \in a.allLockedTeams \/ teamB \in a.allLockedTeams)
            THEN "teamLocked"
       ELSE IF ~forced /\ (weeklyCountA >= 2 \/ weeklyCountB >= 2) THEN "weekLimit"
       ELSE IF ~forced /\ (projectedA > 0 \/ projectedB > 0) THEN "wouldExceed"
       ELSE "ok"

\* indices (1-based) of the entries that pass every filter: those for which rng()
\* is called to draw the jitter
Eligible(ps, a) == {k \in 1..Len(ps) : Rejection(ps[k], a) = "ok"}

\* rng() * 0.05 lies in [0, 0.05): in thousandths, in [0, 50). Every other term
\* of the score is a multiple of 20 thousandths, so which entries can be best
\* depends only on whether a jitter difference exceeds 0, 20 or 40.
JitterValues == {0, 45}

\* score = base + targetScore + gamesLeft + weeklyPenalty + jitter, times 1000
Score(entry, a, jitter) ==
    LET teamA == entry.teams[1]
        teamB == entry.teams[2]
        needA == needScore(a.teamTargetCounts[teamA], a.minTarget)
        needB == needScore(a.teamTargetCounts[teamB], a.minTarget)
        base == entry.remaining * 1000
        targetScore == IF a.isTargetSlot THEN (needA + needB) * 3000
                       ELSE (needA + needB) * (-200)
        gamesLeft == (a.teamGamesRemaining[teamA] + a.teamGamesRemaining[teamB]) * 20
        weeklyPenalty == (GetOr(a.teamsThisWeek, teamA, 0)
                          + GetOr(a.teamsThisWeek, teamB, 0)) * (-2000)
    IN base + targetScore + gamesLeft + weeklyPenalty + jitter

\* every entry that passes the filters, whatever its score
Best_everyEligible(ps, a, jitter) ==
    SelectSeq([k \in 1..Len(ps) |-> k], LAMBDA k : k \in DOMAIN jitter)

\* the array `best` after pairs.forEach: the eligible entries of highest score, in
\* the order of pairs; jitter maps each eligible index to the jitter drawn for it
Best(ps, a, jitter) ==
    LET score == [k \in DOMAIN jitter |-> Score(ps[k], a, jitter[k])]
    IN SelectSeq([k \in 1..Len(ps) |-> k],
                 LAMBDA k : k \in DOMAIN jitter /\ \A m \in DOMAIN jitter : score[m] <= score[k])

-----------------------------------------------------------------------------
(* assignGame *)

\* the team with the higher differential at home when the two differ by more than 1
ByBalance_higherHome(entry, counts, swap) ==
    LET teamA == entry.teams[1]
        teamB == entry.teams[2]
        balanceScoreA == counts.home[teamA] - counts.away[teamA]
        balanceScoreB == counts.home[teamB] - counts.away[teamB]
    IN IF Abs(balanceScoreA - balanceScoreB) > 1
       THEN IF balanceScoreA < balanceScoreB
            THEN [home |-> teamB, away |-> teamA]
            ELSE [home |-> teamA, away |-> teamB]
       ELSE [away |-> IF swap THEN teamB ELSE teamA,
             home |-> IF swap THEN teamA ELSE teamB]

\* home/away by running balance: swap is the outcome of rng() < 0.5
ByBalance(entry, counts, swap) ==
    LET teamA == entry.teams[1]
        teamB == entry.teams[2]
        balanceScoreA == counts.home[teamA] - counts.away[teamA]
        balanceScoreB == counts.home[teamB] - counts.away[teamB]
    IN IF Abs(balanceScoreA - balanceScoreB) > 1
       THEN IF balanceScoreA < balanceScoreB
            THEN [home |-> teamA, away |-> teamB]
            ELSE [home |-> teamB, away |-> teamA]
       ELSE [away |-> IF swap THEN teamB ELSE teamA,
             home |-> IF swap THEN teamA ELSE teamB]

\* entry.teams.find((team) => team !== t) || t
OtherThan(entry, t) ==
    IF entry.teams[1] # t THEN entry.teams[1]
    ELSE IF entry.teams[2] # t THEN entry.teams[2]
    ELSE t

assignGame_targetLabel(slot, entry, lock, counts, swap) ==
    [date |-> slot.date, slot |-> DEFAULT_TARGET_SLOT,
     away |-> ByBalance(entry, counts, swap).away,
     home |-> ByBalance(entry, counts, swap).home]

\* roles by running balance and coin flip alone, whatever the lock says
assignGame_balanceOnly(slot, entry, lock, counts, swap) ==
    [date |-> slot.date, slot |-> slot.slot,
     away |-> ByBalance(entry, counts, swap).away,
     home |-> ByBalance(entry, counts, swap).home]

assignGame(slot, entry, lock, counts, swap) ==
    LET roles ==
            IF lock.none THEN ByBalance(entry, counts, swap)
            ELSE IF lock.away # NoTeam /\ lock.home # NoTeam
                 THEN [away |-> lock.away, home |-> lock.home]
            ELSE IF lock.away # NoTeam
                 THEN [away |-> lock.away, home |-> OtherThan(entry, lock.away)]
            ELSE IF lock.home # NoTeam
                 THEN [home |-> lock.home, away |-> OtherThan(entry, lock.home)]
            ELSE LET r == ByBalance(entry, counts, swap)
                 IN IF Cardinality(lock.requiredTeams) = 1
                       /\ r.away \notin lock.requiredTeams
                       /\ r.home \in lock.requiredTeams
                    THEN [away |-> r.home, home |-> r.away]
                    ELSE r
    IN [date |-> slot.date, slot |-> slot.slot, away |-> roles.away, home |-> roles.home]


-----------------------------------------------------------------------------
(* tryGenerateSchedule and generateBalancedSchedule *)

\* the maxFlips generateBalancedSchedule passes to optimizeHomeAwayBalance
OptimizerFlips == 100

NoResult == [games |-> <<>>, seed |-> NoSlot, attempts |-> 0, homeAwayFlips |-> 0,
             stats |-> [minTarget |-> 0, maxTarget |-> 0, targetCounts |-> NoCounts],
             homeAwayCounts |-> [home |-> NoCounts, away |-> NoCounts]]

\* the failure record with the slot counted from 1, as in the reason text
Failure_oneBased(reason, slotIndex, partialGames) ==
    [attempt |-> attempt + 1, reason |-> reason, slotIndex |-> slotIndex + 1,
     partialGames |-> partialGames, seed |-> attempt]

\* failures.push({ attempt: attempt + 1, reason, slotIndex, partialGames, seed });
\* the seed `${seed}-${attempt}` is recorded as the attempt number it is made of
Failure(reason, slotIndex, partialGames) ==
    [attempt |-> attempt + 1, reason |-> reason, slotIndex |-> slotIndex,
     partialGames |-> partialGames, seed |-> attempt]

\* the record with the loop index itself as its number of attempts
Success_attemptIndex(finalGames, nflips) ==
    [games |-> finalGames, seed |-> attempt, attempts |-> attempt,
     homeAwayFlips |-> nflips,
     stats |-> [minTarget |-> MinTarget, maxTarget |-> MaxTarget,
                targetCounts |-> teamTargetCounts],
     homeAwayCounts |-> homeAwayCounts]

\* { ...result, games: finalGames, seed: attemptSeed, attempts: attempt + 1,
\*   homeAwayFlips: flips }
Success(finalGames, nflips) ==
    [games |-> finalGames, seed |-> attempt, attempts |-> attempt + 1,
     homeAwayFlips |-> nflips,
     stats |-> [minTarget |-> MinTarget, maxTarget |-> MaxTarget,
                targetCounts |-> teamTargetCounts],
     homeAwayCounts |-> homeAwayCounts]

\* nothing has been thrown
NoError == [kind |-> "none"]

\* throw new Error('No teams provided for generation.') and its twin for slots
InputError(message) == [kind |-> "Error", message |-> message]

\* lastFailure.reason with lastFailure undefined
TypeError == [kind |-> "TypeError"]

\* the aggregate error with the last failure record in place of last
ExhaustedError_lastIsFirst(fs) ==
    [kind |-> "Error", message |-> "Unable to build a balanced schedule",
     attempts |-> maxAttempts, lastFailure |-> fs[1], failures |-> fs]

\* the aggregate error: its message names maxAttempts and the reason of
\* lastFailure = failures[failures.length - 1] (the record is kept in place of the
\* text made of it); error.failures = failures
ExhaustedError(fs) ==
    [kind |-> "Error", message |-> "Unable to build a balanced schedule",
     attempts |-> maxAttempts, lastFailure |-> fs[Len(fs)], failures |-> fs]

\* the input checks with the one on the slots left out
InputRejected_teamsOnly(ts, sl) == toTeamArray(ts) = <<>>

\* !normalizedTeams.length, or !slots || !slots.length (a missing slot list and an
\* empty one take the same branch; both are the empty sequence here)
InputRejected(ts, sl) == toTeamArray(ts) = <<>> \/ sl = <<>>

\* the two input checks and `const failures = []`
Validate ==
    /\ pc = "start"
    /\ pc' = IF InputRejected(teams, slots) THEN "inputError" ELSE "loop"
    /\ error' = IF ~InputRejected(teams, slots) THEN error
                ELSE IF toTeamArray(teams) = <<>>
                THEN InputError("No teams provided for generation.")
                ELSE InputError("No slots provided for generation.")
    /\ attempt' = 0
    /\ failures' = <<>>
    /\ UNCHANGED <<result, inputVars, attemptVars, optVars>>

\* an attempt that starts with the per-date played sets of the attempt before it
StartAttempt_keepsPlayed ==
    /\ pc = "loop"
    /\ attempt < maxAttempts
    /\ LET normalizedTeams == toTeamArray(teams)
           names == Range(normalizedTeams)
           gamesNeededPerTeam == gamesPerPair * (Len(normalizedTeams) - 1)
       IN /\ pairs' = createPairState(normalizedTeams, gamesPerPair)
          /\ teamTargetCounts' = [t \in names |-> 0]
          /\ teamGamesRemaining' = [t \in names |-> gamesNeededPerTeam]
          /\ homeAwayCounts' = [home |-> [t \in names |-> 0], away |-> [t \in names |-> 0]]
    /\ assignments' = <<>>
    /\ teamsByDate' = teamsByDate
    /\ teamsByWeek' = [w \in {} |-> NoCounts]
    /\ i' = 0
    /\ pc' = "slot"
    /\ UNCHANGED <<attempt, failures, result, error, inputVars, optVars>>

\* for (attempt < maxAttempts): tryGenerateSchedule builds its fresh state
StartAttempt ==
    /\ pc = "loop"
    /\ attempt < maxAttempts
    /\ LET normalizedTeams == toTeamArray(teams)
           names == Range(normalizedTeams)
           gamesNeededPerTeam == gamesPerPair * (Len(normalizedTeams) - 1)
       IN /\ pairs' = createPairState(normalizedTeams, gamesPerPair)
          /\ teamTargetCounts' = [t \in names |-> 0]
          /\ teamGamesRemaining' = [t \in names |-> gamesNeededPerTeam]
          /\ homeAwayCounts' = [home |-> [t \in names |-> 0], away |-> [t \in names |-> 0]]
    /\ assignments' = <<>>
    /\ teamsByDate' = [d \in {} |-> {}]
    /\ teamsByWeek' = [w \in {} |-> NoCounts]
    /\ i' = 0
    /\ pc' = "slot"
    /\ UNCHANGED <<attempt, failures, result, error, inputVars, optVars>>

Bump(counts, t) == Put(counts, t, GetOr(counts, t, 0) + 1)

\* one iteration of the slot loop in which selectPair returns an entry
\* (\E x \in {e} names the value of e)
AssignSlot ==
    /\ pc = "slot"
    /\ i < Len(slots)
    /\ \E slot \in {slots[i + 1]}, a \in {SelectArgs(i)} :
       \E eligible \in {Eligible(pairs, a)} :
          /\ eligible # {}
          /\ \E jitter \in [eligible -> JitterValues], swap \in BOOLEAN :
             \E best \in {Best(pairs, a, jitter)} :
             \E b \in 1..Len(best) :            \* Math.floor(rng() * best.length)
             \E game \in {assignGame(slot, pairs[best[b]], SlotLock(lockRequirements, slot),
                                     homeAwayCounts, swap)} :
                LET candidate == best[b]
                    away == game.away
                    home == game.home
                IN /\ assignments' = Append(assignments, game)
                   /\ pairs' = [pairs EXCEPT ![candidate].remaining = @ - 1]
                   /\ homeAwayCounts' =
                        [home |-> [homeAwayCounts.home EXCEPT ![home] = @ + 1],
                         away |-> [homeAwayCounts.away EXCEPT ![away] = @ + 1]]
                   /\ teamsByDate' =
                        Put(teamsByDate, slot.date, a.teamsPlayedToday \cup {away, home})
                   /\ teamsByWeek' =
                        Put(teamsByWeek, getWeekKey(slot.date),
                            Bump(Bump(a.teamsThisWeek, away), home))
                   /\ teamGamesRemaining' =
                        [t \in DOMAIN teamGamesRemaining |->
                           teamGamesRemaining[t] - (IF t = away THEN 1 ELSE 0)
                                                 - (IF t = home THEN 1 ELSE 0)]
                   /\ teamTargetCounts' =
                        IF a.isTargetSlot
                        THEN [t \in DOMAIN teamTargetCounts |->
                                teamTargetCounts[t] + (IF t = away THEN 1 ELSE 0)
                                                    + (IF t = home THEN 1 ELSE 0)]
                        ELSE teamTargetCounts
    /\ i' = i + 1
    /\ UNCHANGED <<genVars, inputVars, optVars>>

\* selectPair returns null: the attempt fails at slot i and the retry loop records it
SlotFails ==
    /\ pc = "slot"
    /\ i < Len(slots)
    /\ Eligible(pairs, SelectArgs(i)) = {}
    /\ failures' = Append(failures, Failure("noMatchup", i, assignments))
    /\ attempt' = attempt + 1
    /\ pc' = "loop"
    /\ UNCHANGED <<result, error, inputVars, attemptVars, optVars>>

\* the filter with no entry left in it
Unfinished_none(ps) == {}

\* unfinished = pairs.filter((entry) => entry.remaining > 0), as positions
Unfinished(ps) == {k \in 1..Len(ps) : ps[k].remaining > 0}

\* the slot loop is over: unfinished pairs fail the attempt; otherwise the attempt
\* succeeds, its games are checked for doubleheaders, and either the optimizer is
\* started on them or (optimizeHomeAway false) they are returned as they are
FinishAttempt ==
    /\ pc = "slot"
    /\ i = Len(slots)
    /\ IF Unfinished(pairs) # {}
       THEN /\ failures' = Append(failures, Failure("unassigned", NoSlot, assignments))
            /\ attempt' = attempt + 1
            /\ pc' = "loop"
            /\ UNCHANGED <<result, error, optVars>>
       ELSE IF ~verifyNoDoubleheaders(assignments).valid
       THEN /\ failures' = Append(failures, Failure("doubleheaders", NoSlot, assignments))
            /\ attempt' = attempt + 1
            /\ pc' = "loop"
            /\ UNCHANGED <<result, error, optVars>>
       ELSE IF optimizeHomeAway
       THEN /\ games' = assignments
            /\ maxFlips' = OptimizerFlips
            /\ gamesCopy' = CopyGames(assignments)
            /\ improved' = TRUE
            /\ flips' = 0
            /\ optPc' = "loop"
            /\ pc' = "optimize"
            /\ UNCHANGED <<attempt, failures, result, error>>
       ELSE /\ result' = Success(assignments, 0)
            /\ pc' = "returned"
            /\ UNCHANGED <<attempt, failures, error, optVars>>
    /\ UNCHANGED <<inputVars, attemptVars>>

\* the optimizer has returned: its games are checked again and the record returned
Return ==
    /\ pc = "optimize"
    /\ optPc = "done"
    /\ result' = IF verifyNoDoubleheaders(gamesCopy).valid
                 THEN Success(gamesCopy, flips)
                 ELSE Success(games, 0)
    /\ pc' = "returned"
    /\ UNCHANGED <<attempt, failures, error, inputVars, attemptVars, optVars>>

\* a retry loop whose end throws nothing
ThrowExhausted_never ==
    /\ FALSE
    /\ UNCHANGED vars

\* the retry loop is over: lastFailure = failures[failures.length - 1] is read
\* and the aggregate error thrown; when failures is empty lastFailure is undefined
\* and reading lastFailure.reason throws a TypeError instead
ThrowExhausted ==
    /\ pc = "loop"
    /\ attempt >= maxAttempts
    /\ pc' = IF failures = <<>> THEN "typeError" ELSE "exhausted"
    /\ error' = IF failures = <<>> THEN TypeError ELSE ExhaustedError(failures)
    /\ UNCHANGED <<attempt, failures, result, inputVars, attemptVars, optVars>>


-----------------------------------------------------------------------------
(* Inputs *)

RECURSIVE PrefixSum(_, _)
PrefixSum(steps, k) == IF k = 0 THEN 0 ELSE steps[k] + PrefixSum(steps, k - 1)

\* the labels of a slot file of n lines: every slot the target slot, or the early
\* and the target slot in turn
LabelLists(n) ==
    {[k \in 1..n |-> DEFAULT_TARGET_SLOT],
     [k \in 1..n |-> IF k % 2 = 1 THEN OtherSlot ELSE DEFAULT_TARGET_SLOT]}

\* slot lists of n slots in date order, as loadTimeSlotPairs reads them from a
\* file without blank lines (index = position): the first slot on day 0, each
\* next one `step` days after the one before
SlotLists(n, steps, labels) ==
    {[k \in 1..n |-> [date |-> PrefixSum(st, k - 1), slot |-> lb[k], index |-> k - 1]] :
        <<st, lb>> \in [1..(n - 1) -> steps] \X labels}

\* a slot list given by its dates and labels (index = position)
SlotsOf(dates, labels) ==
    [k \in 1..Len(dates) |-> [date |-> dates[k], slot |-> labels[k], index |-> k - 1]]

\* locks on team A's games in a three-team league: the required team alone (as
\* buildLockRequirements makes them), with one explicit side, with both
LockKinds ==
    {Lock({"A"}, NoTeam, NoTeam), Lock({"A"}, "A", NoTeam),
     Lock({"A"}, "A", "B"), Lock({"A"}, "B", "C")}

\* no lock; one locked slot; or the first two slots locked, the second to team A
LockMaps(n) ==
    {[k \in {} |-> NoLock]}
    \cup {(k :> lock) : <<k, lock>> \in (0..(n - 1)) \X LockKinds}
    \cup {(0 :> lock) @@ (1 :> Lock({"A"}, NoTeam, NoTeam)) :
            lock \in IF n >= 2 THEN LockKinds ELSE {}}

\* six slots in three weeks: an opening target slot, then a week whose third slot
\* is the target slot, then two more slots
MidweekTargetSlots ==
    SlotsOf(<<0, 7, 8, 9, 14, 15>>,
            <<DEFAULT_TARGET_SLOT, OtherSlot, OtherSlot,
              DEFAULT_TARGET_SLOT, OtherSlot, OtherSlot>>)

\* six slots outside the target slot, two on one day of each of three weeks
PairedDaySlots ==
    SlotsOf(<<0, 0, 7, 7, 14, 14>>, [k \in 1..6 |-> OtherSlot])

\* team A's three games locked to the second slot of each day, the first of them
\* with explicit sides
PairedDayLocks ==
    (1 :> Lock({"A"}, "A", "C")) @@ (3 :> Lock({"A"}, NoTeam, NoTeam))
        @@ (5 :> Lock({"A"}, NoTeam, NoTeam))

IdleAttempt ==
    /\ i = 0
    /\ pairs = <<>>
    /\ teamTargetCounts = NoCounts
    /\ teamGamesRemaining = NoCounts
    /\ assignments = <<>>
    /\ teamsByDate = [d \in {} |-> {}]
    /\ teamsByWeek = [w \in {} |-> NoCounts]
    /\ homeAwayCounts = [home |-> NoCounts, away |-> NoCounts]

IdleOptimizer ==
    /\ games = <<>>
    /\ maxFlips = 0
    /\ gamesCopy = <<>>
    /\ improved = FALSE
    /\ flips = 0
    /\ optPc = "idle"

IdleGenerator ==
    /\ pc = "start"
    /\ attempt = 0
    /\ failures = <<>>
    /\ result = NoResult
    /\ error = NoError

\* three teams that meet once, the optimizer on: without locks on slots a day
\* apart or on the same day, with locks on slots a day apart
InitSingleRound ==
    /\ teams = <<"A", "B", "C">>
    /\ gamesPerPair = 1
    /\ maxAttempts \in 1..MaxAttempts
    /\ optimizeHomeAway = TRUE
    /\ \E n \in 1..MaxSlots :
         \/ /\ slots \in SlotLists(n, {0, 1}, LabelLists(n))
            /\ lockRequirements = [k \in {} |-> NoLock]
         \/ /\ slots \in SlotLists(n, {1}, LabelLists(n))
            /\ lockRequirements \in LockMaps(n)

\* three teams that meet once on slots a week apart, with locks, the optimizer off
InitWeekly ==
    /\ teams = <<"A", "B", "C">>
    /\ gamesPerPair = 1
    /\ maxAttempts \in 1..MaxAttempts
    /\ optimizeHomeAway = FALSE
    /\ \E n \in 1..MaxSlots :
         /\ slots \in SlotLists(n, {7}, LabelLists(n))
         /\ lockRequirements \in LockMaps(n) \ {[k \in {} |-> NoLock]}

\* three teams that meet twice, without locks, one attempt, the optimizer off
InitDoubleRound ==
    /\ teams = <<"A", "B", "C">>
    /\ gamesPerPair = 2
    /\ maxAttempts = 1
    /\ optimizeHomeAway = FALSE
    /\ slots = MidweekTargetSlots
    /\ lockRequirements = [k \in {} |-> NoLock]

\* four teams that meet once on two slots a day, one attempt: without locks and
\* the optimizer off, or with team A's games locked
InitFourTeams ==
    /\ teams = <<"A", "B", "C", "D">>
    /\ gamesPerPair = 1
    /\ maxAttempts = 1
    /\ slots = PairedDaySlots
    /\ \/ optimizeHomeAway = FALSE /\ lockRequirements = [k \in {} |-> NoLock]
       \/ optimizeHomeAway \in BOOLEAN /\ lockRequirements = PairedDayLocks

\* six slots, the first two on one day, the others a week apart each
SharedDaySlots(label) ==
    SlotsOf(<<0, 0, 7, 14, 21, 28>>, [k \in 1..6 |-> label])

\* four teams that meet once, the optimizer off; team A is required in both slots
\* of the shared day and in the slot after them
InitSharedDay ==
    /\ teams = <<"A", "B", "C", "D">>
    /\ gamesPerPair = 1
    /\ maxAttempts \in 1..MaxAttempts
    /\ optimizeHomeAway = FALSE
    /\ slots \in {SharedDaySlots(DEFAULT_TARGET_SLOT), SharedDaySlots(OtherSlot)}
    /\ \E first \in LockKinds, second \in LockKinds :
          lockRequirements =
              (0 :> first) @@ (1 :> second) @@ (2 :> Lock({"A"}, NoTeam, NoTeam))

\* the dates of six slots on six days: one a week, two a week, all in one week
SixDateLists ==
    {<<0, 7, 14, 21, 28, 35>>, <<0, 1, 7, 8, 14, 15>>, <<0, 1, 2, 3, 4, 5>>}

\* four teams that meet once on six target slots of six days, without locks, one
\* attempt, the optimizer off
InitSixDates ==
    /\ teams = <<"A", "B", "C", "D">>
    /\ gamesPerPair = 1
    /\ maxAttempts = 1
    /\ optimizeHomeAway = FALSE
    /\ slots \in {SlotsOf(dates, [k \in 1..6 |-> DEFAULT_TARGET_SLOT]) : dates \in SixDateLists}
    /\ lockRequirements = [k \in {} |-> NoLock]

\* locks without required teams (lock.requiredTeams || [] is empty): nothing else
\* named, or an away team named
OpenLockKinds == {Lock({}, NoTeam, NoTeam), Lock({}, "A", NoTeam)}

\* six slots outside the target slot: a week apart each, or the first four on
\* four days of one week
OpenLockDates == {<<0, 7, 14, 21, 28, 35>>, <<0, 1, 2, 3, 7, 14>>}

\* four teams that meet once, one attempt, the optimizer off; team A is required
\* in the first three slots and the fourth slot has a lock without required teams
InitOpenLock ==
    /\ teams = <<"A", "B", "C", "D">>
    /\ gamesPerPair = 1
    /\ maxAttempts = 1
    /\ optimizeHomeAway = FALSE
    /\ slots \in {SlotsOf(dates, [k \in 1..6 |-> OtherSlot]) : dates \in OpenLockDates}
    /\ \E open \in OpenLockKinds :
          lockRequirements =
              (0 :> Lock({"A"}, NoTeam, NoTeam)) @@ (1 :> Lock({"A"}, NoTeam, NoTeam))
                  @@ (2 :> Lock({"A"}, NoTeam, NoTeam)) @@ (3 :> open)

\* six slots, the second and third on one day: the first and the third are in
\* the target slot
TwoTargetSlots ==
    SlotsOf(<<0, 7, 7, 14, 21, 28>>,
            <<DEFAULT_TARGET_SLOT, OtherSlot, DEFAULT_TARGET_SLOT,
              OtherSlot, OtherSlot, OtherSlot>>)

\* four teams that meet once, one attempt, the optimizer off; team A is required
\* in the second target slot and in the two slots after it
InitForcedTarget ==
    /\ teams = <<"A", "B", "C", "D">>
    /\ gamesPerPair = 1
    /\ maxAttempts = 1
    /\ optimizeHomeAway = FALSE
    /\ slots = TwoTargetSlots
    /\ lockRequirements =
          (2 :> Lock({"A"}, NoTeam, NoTeam)) @@ (3 :> Lock({"A"}, NoTeam, NoTeam))
              @@ (4 :> Lock({"A"}, NoTeam, NoTeam))

\* three slots a day apart read from a file whose first line is blank: the
\* ordinal index of a slot is the number of its line, one more than its position
SlotsAfterBlankLine ==
    [k \in 1..3 |-> [date |-> k - 1, slot |-> OtherSlot, index |-> k]]

\* three teams that meet once, one attempt, the optimizer on; the locks are keyed
\* by ordinal index: A at B pinned in the first slot, A required in the second, B
\* in the third
InitBlankLine ==
    /\ teams = <<"A", "B", "C">>
    /\ gamesPerPair = 1
    /\ maxAttempts = 1
    /\ optimizeHomeAway = TRUE
    /\ slots = SlotsAfterBlankLine
    /\ lockRequirements =
          (1 :> Lock({"A", "B"}, "A", "B")) @@ (2 :> Lock({"A"}, NoTeam, NoTeam))
              @@ (3 :> Lock({"B"}, NoTeam, NoTeam))

\* one or two teams (one name possibly given twice) that meet once or twice on one
\* to three slots a week apart: fewer, as many or more slots than games to play;
\* no locks, one attempt, the optimizer off
InitFewTeams ==
    /\ teams \in {<<"A">>, <<"A", "B">>, <<"A", "B", "A">>}
    /\ gamesPerPair \in {1, 2}
    /\ maxAttempts = 1
    /\ optimizeHomeAway = FALSE
    /\ slots \in {SlotsOf([k \in 1..n |-> 7 * (k - 1)], [k \in 1..n |-> OtherSlot]) :
                    n \in {1, 2, 3}}
    /\ lockRequirements = [k \in {} |-> NoLock]

\* calls at the edges of the input checks and of the retry budget: no teams, no
\* slots, a team list with a repeated name, no attempt allowed
InitEdge ==
    /\ gamesPerPair = 1
    /\ optimizeHomeAway = TRUE
    /\ lockRequirements = [k \in {} |-> NoLock]
    /\ maxAttempts \in 0..MaxAttempts
    /\ \/ /\ teams = <<>>
          /\ slots \in {<<>>} \cup SlotLists(3, {1}, LabelLists(3))
       \/ /\ teams \in {<<"A", "B", "C">>, <<"A", "B", "A", "C">>}
          /\ slots = <<>>
       \/ /\ teams \in {<<"A", "B", "C">>, <<"A", "B", "A", "C">>}
          /\ slots \in SlotLists(3, {1}, LabelLists(3))
          /\ maxAttempts = 0

\* generateBalancedSchedule is called
Init ==
    /\ \/ InitSingleRound
       \/ InitWeekly
       \/ InitDoubleRound
       \/ InitFourTeams
       \/ InitSharedDay
       \/ InitSixDates
       \/ InitOpenLock
       \/ InitForcedTarget
       \/ InitBlankLine
       \/ InitFewTeams
       \/ InitEdge
    /\ IdleGenerator
    /\ IdleAttempt
    /\ IdleOptimizer

Next ==
    \/ Validate
    \/ StartAttempt
    \/ AssignSlot
    \/ SlotFails
    \/ FinishAttempt
    \/ OptFlip
    \/ OptStop
    \/ Return
    \/ ThrowExhausted

Spec == Init /\ [][Next]_vars

\* three teams that meet once on three slots a day apart, the optimizer on:
\* without locks in one attempt, or in two attempts with slot 0 locked to A at B
\* and slot 1 to team A, where an attempt fails or succeeds depending on the draws
InitRetry ==
    /\ teams = <<"A", "B", "C">>
    /\ gamesPerPair = 1
    /\ optimizeHomeAway = TRUE
    /\ slots = SlotsOf(<<0, 1, 2>>, [k \in 1..3 |-> DEFAULT_TARGET_SLOT])
    /\ \/ /\ maxAttempts = 1
          /\ lockRequirements = [k \in {} |-> NoLock]
       \/ /\ maxAttempts = 2
          /\ lockRequirements =
                (0 :> Lock({"A"}, "A", "B")) @@ (1 :> Lock({"A"}, NoTeam, NoTeam))

\* the calls on which the generator is run to its end
InitFair ==
    /\ \/ InitRetry
       \/ InitBlankLine
       \/ InitFewTeams
       \/ InitEdge
    /\ IdleGenerator
    /\ IdleAttempt
    /\ IdleOptimizer

\* the call runs on: generateBalancedSchedule is sequential code without waits, a
\* step that can be taken is taken
SpecFair == InitFair /\ [][Next]_vars /\ WF_vars(Next)

\* optimizeHomeAwayBalance is called directly on a game list of teams A, B, C
\* (one game per date) whose first game is A at B
OrientedPairs == {p \in {"A", "B", "C"} \X {"A", "B", "C"} : p[1] # p[2]}

\* a list of four teams: A at B once, then C at D twice
RematchGames ==
    [k \in 1..3 |-> [date |-> k - 1, slot |-> DEFAULT_TARGET_SLOT,
                     away |-> IF k = 1 THEN "A" ELSE "C",
                     home |-> IF k = 1 THEN "B" ELSE "D"]]

OptGameLists ==
    UNION {{[k \in 1..n |-> [date |-> k - 1, slot |-> DEFAULT_TARGET_SLOT,
                             away |-> f[k][1], home |-> f[k][2]]] :
              f \in {g \in [1..n -> OrientedPairs] : n = 0 \/ g[1] = <<"A", "B">>}} :
           n \in 0..MaxOptGames}
    \cup {RematchGames}

\* at most one lock, on the game at its position: its away team required, alone
\* or with both sides named
OptLockMaps(gs) ==
    {[k \in {} |-> NoLock]}
    \cup {(k :> Lock({gs[k + 1].away}, NoTeam, NoTeam)) : k \in 0..(Len(gs) - 1)}
    \cup {(k :> Lock({gs[k + 1].away}, gs[k + 1].away, gs[k + 1].home)) :
            k \in 0..(Len(gs) - 1)}

\* a list of four teams in which both home games of team B are pinned by locks
\* that name both sides: A at B, C at B, A at D, D at A
PinnedHomeGames ==
    [k \in 1..4 |-> [date |-> k - 1, slot |-> DEFAULT_TARGET_SLOT,
                     away |-> <<"A", "C", "A", "D">>[k],
                     home |-> <<"B", "B", "D", "A">>[k]]]

PinnedHomeLocks == (0 :> Lock({"B"}, "A", "B")) @@ (1 :> Lock({"B"}, "C", "B"))

\* a list of four teams in which the only game of the first team looked at, B,
\* is against a team that has more home than away games as B has: A at B, C at
\* A, D at A
HomeHeavyGames ==
    [k \in 1..3 |-> [date |-> k - 1, slot |-> DEFAULT_TARGET_SLOT,
                     away |-> <<"A", "C", "D">>[k],
                     home |-> <<"B", "A", "A">>[k]]]

InitOpt ==
    /\ \/ games \in OptGameLists /\ lockRequirements \in OptLockMaps(games)
       \/ games = PinnedHomeGames /\ lockRequirements = PinnedHomeLocks
       \/ games = HomeHeavyGames /\ lockRequirements = [k \in {} |-> NoLock]
    /\ maxFlips \in 0..MaxFlipsArg
    /\ gamesCopy = CopyGames(games)
    /\ improved = TRUE
    /\ flips = 0
    /\ optPc = "loop"
    /\ teams = <<>>
    /\ slots = <<>>
    /\ gamesPerPair = 0
    /\ maxAttempts = 0
    /\ optimizeHomeAway = TRUE
    /\ pc = "direct"
    /\ attempt = 0
    /\ failures = <<>>
    /\ result = NoResult
    /\ error = NoError
    /\ IdleAttempt

NextOpt == OptFlip \/ OptStop

SpecOpt == InitOpt /\ [][NextOpt]_vars

\* the call runs on: the loop is sequential code, a step that can be taken is taken
SpecOptFair == SpecOpt /\ WF_vars(NextOpt)

\* the analysis functions called on their own on a list of games of teams A, B, C:
\* away games of team A on a date each in either slot, or games on two dates in
\* the target slot
AnalysisPairs == {<<"A", "B">>, <<"A", "C">>, <<"C", "B">>}

FairnessGameLists ==
    UNION {{[k \in 1..n |-> [date |-> k - 1, slot |-> f[k][2],
                             away |-> f[k][1][1], home |-> f[k][1][2]]] :
              f \in [1..n -> {p \in AnalysisPairs : p[1] = "A"}
                               \X {DEFAULT_TARGET_SLOT, OtherSlot}]} :
           n \in 0..MaxFairGames}

DoubleheaderGameLists ==
    UNION {{[k \in 1..n |-> [date |-> f[k][2], slot |-> DEFAULT_TARGET_SLOT,
                             away |-> f[k][1][1], home |-> f[k][1][2]]] :
              f \in [1..n -> AnalysisPairs \X {0, 1}]} :
           n \in 0..MaxDhGames}

InitAnalysis ==
    /\ games \in FairnessGameLists \cup DoubleheaderGameLists
    /\ pc = "analysis"
    /\ result = NoResult
    /\ error = NoError
    /\ attempt = 0
    /\ failures = <<>>
    /\ teams = <<>>
    /\ slots = <<>>
    /\ gamesPerPair = 0
    /\ maxAttempts = 0
    /\ optimizeHomeAway = FALSE
    /\ lockRequirements = [k \in {} |-> NoLock]
    /\ maxFlips = 0
    /\ gamesCopy = <<>>
    /\ improved = FALSE
    /\ flips = 0
    /\ optPc = "idle"
    /\ IdleAttempt

\* computeSlotFairness(games) with the default slot
ComputeSlotFairness ==
    /\ pc = "analysis"
    /\ result' = computeSlotFairness(games, DEFAULT_TARGET_SLOT)
    /\ pc' = "rated"
    /\ UNCHANGED <<attempt, failures, error, inputVars, attemptVars, optVars>>

\* verifyNoDoubleheaders(games)
VerifyNoDoubleheaders ==
    /\ pc = "analysis"
    /\ result' = verifyNoDoubleheaders(games)
    /\ pc' = "verified"
    /\ UNCHANGED <<attempt, failures, error, inputVars, attemptVars, optVars>>

NextAnalysis == ComputeSlotFairness \/ VerifyNoDoubleheaders

SpecAnalysis == InitAnalysis /\ [][NextAnalysis]_vars

-----------------------------------------------------------------------------
(* selectPair called on its own: the state is that of an attempt about to fill
   slot 0 of two slots a week apart, four teams, gamesPerPair 2; result holds
   what the call returned and the jitter drawn for each entry that was scored *)

\* games left per entry, in the order of createPairState: A-B, A-C, A-D, B-C,
\* B-D, C-D
SelectRemaining ==
    {<<ab, ac, 0, 0, 1, cd>> : <<ab, ac, cd>> \in (0..2) \X (0..1) \X (0..1)}

\* the teams that already have one target-slot game
SelectTargetTeams == {{}, {"A"}, {"A", "B"}, {"C", "D"}, {"A", "B", "C", "D"}}

\* the teams that already played on the date of slot 0
SelectPlayedToday == {{}, {"A", "B"}, {"C", "D"}}

\* games per team already played in the week of slot 0
SelectWeekCounts ==
    {NoCounts,
     ("A" :> 1) @@ ("B" :> 1),
     ("A" :> 2) @@ ("B" :> 1) @@ ("C" :> 1)}

\* no lock; slot 0 locked to one or two teams; the other slot locked, which makes
\* its team a locked team in slot 0; both
SelectLockMaps ==
    {[k \in {} |-> NoLock],
     (0 :> Lock({"A"}, NoTeam, NoTeam)),
     (0 :> Lock({"A", "B"}, NoTeam, NoTeam)),
     (1 :> Lock({"A"}, NoTeam, NoTeam)),
     (0 :> Lock({"C"}, NoTeam, NoTeam)) @@ (1 :> Lock({"A"}, NoTeam, NoTeam))}

\* what selectPair returned: the position of the entry in pairs, 0 for null
Selected(k, jitter) == [selected |-> k, jitter |-> jitter]

InitSelect ==
    /\ teams = <<"A", "B", "C", "D">>
    /\ gamesPerPair = 2
    /\ maxAttempts = 1
    /\ optimizeHomeAway = FALSE
    /\ slots \in {SlotsOf(<<0, 7>>, <<l1, l2>>) :
                    <<l1, l2>> \in {DEFAULT_TARGET_SLOT, OtherSlot}
                                     \X {DEFAULT_TARGET_SLOT, OtherSlot}}
    /\ lockRequirements \in SelectLockMaps
    /\ \E remaining \in SelectRemaining :
          \E fresh \in {createPairState(toTeamArray(teams), gamesPerPair)} :
             /\ pairs = [k \in 1..Len(fresh) |-> [fresh[k] EXCEPT !.remaining = remaining[k]]]
             /\ teamGamesRemaining =
                   [t \in Range(teams) |->
                       SumOver({k \in 1..Len(fresh) : t \in Range(fresh[k].teams)},
                               remaining)]
    /\ \E S \in SelectTargetTeams :
          teamTargetCounts = [t \in Range(teams) |-> IF t \in S THEN 1 ELSE 0]
    /\ \E S \in SelectPlayedToday : teamsByDate = (0 :> S)
    /\ \E counts \in SelectWeekCounts : teamsByWeek = (getWeekKey(0) :> counts)
    /\ i = 0
    /\ assignments = <<>>
    /\ homeAwayCounts = [home |-> [t \in Range(teams) |-> 0],
                         away |-> [t \in Range(teams) |-> 0]]
    /\ pc = "select"
    /\ attempt = 0
    /\ failures = <<>>
    /\ result = Selected(0, NoCounts)
    /\ error = NoError
    /\ IdleOptimizer

\* selectPair finds no entry to score and returns null
SelectReturnsNull ==
    /\ pc = "select"
    /\ Eligible(pairs, SelectArgs(i)) = {}
    /\ result' = Selected(0, NoCounts)
    /\ pc' = "selected"
    /\ UNCHANGED <<attempt, failures, error, inputVars, attemptVars, optVars>>

\* selectPair scores the entries that pass the filters and returns one of `best`
SelectReturnsEntry ==
    /\ pc = "select"
    /\ \E a \in {SelectArgs(i)} :
       \E eligible \in {Eligible(pairs, a)} :
          /\ eligible # {}
          /\ \E jitter \in [eligible -> JitterValues] :
             \E best \in {Best(pairs, a, jitter)} :
             \E b \in 1..Len(best) :
                result' = Selected(best[b], jitter)
    /\ pc' = "selected"
    /\ UNCHANGED <<attempt, failures, error, inputVars, attemptVars, optVars>>

NextSelect == SelectReturnsNull \/ SelectReturnsEntry

SpecSelect == InitSelect /\ [][NextSelect]_vars

-----------------------------------------------------------------------------
(* Properties of optimizeHomeAwayBalance, stated on the game lists themselves *)

TeamsIn(gs) == {gs[k].home : k \in 1..Len(gs)} \cup {gs[k].away : k \in 1..Len(gs)}

HomeGames(gs, t) == Cardinality({k \in 1..Len(gs) : gs[k].home = t})

AwayGames(gs, t) == Cardinality({k \in 1..Len(gs) : gs[k].away = t})

\* |home - away| of team t in gs
HomeAwayGap(gs, t) == Abs(HomeGames(gs, t) - AwayGames(gs, t))

RECURSIVE GapSum(_, _)
\* the sum over the teams of ts of |home - away| in gs
GapSum(gs, ts) ==
    IF ts = {} THEN 0
    ELSE LET t == CHOOSE x \in ts : TRUE
         IN HomeAwayGap(gs, t) + GapSum(gs, ts \ {t})

TotalGap(gs) == GapSum(gs, TeamsIn(gs))

\* C7: the optimizer never makes the total imbalance worse: the sum over teams of
\* |home - away| of the returned list is at most that of the input list, and no
\* single flip increases that sum.
C7_TotalNeverIncreases ==
    [][/\ TotalGap(gamesCopy') <= TotalGap(gamesCopy)
       /\ optPc' = "done" => TotalGap(gamesCopy') <= TotalGap(games')]_vars

\* C8: every flip strictly decreases |home - away| of the team it was selected
\* for, also when that team's imbalance is exactly 1.
C8_FlipHelpsSelectedTeam ==
    [][flips' = flips + 1 =>
         LET team == FlipTeam(gamesCopy, lockRequirements, computeHomeAwayBalance(gamesCopy))
         IN HomeAwayGap(gamesCopy', team) < HomeAwayGap(gamesCopy, team)]_vars

\* C9: if every team of the input list has as many home as away games, the
\* optimizer returns the input list unchanged and reports 0 flips.
C9_BalancedInputUnchanged ==
    (optPc = "done" /\ \A t \in TeamsIn(games) : HomeGames(games, t) = AwayGames(games, t))
        => (gamesCopy = games /\ flips = 0)

\* a call with flips allowed on a balanced list of two or more games has returned
C9_BalancedInputReturned ==
    /\ optPc = "done"
    /\ maxFlips > 0
    /\ Len(games) >= 2
    /\ \A t \in TeamsIn(games) : HomeGames(games, t) = AwayGames(games, t)

\* C10: the optimizer only swaps home and away: the returned list has the length
\* and order of the input list, and at each position the same date, the same
\* slot and the same set {home, away}; the input list itself is not modified.
C10_OnlySidesSwapped ==
    [][/\ games' = games
       /\ Len(gamesCopy') = Len(games')
       /\ \A k \in 1..Len(games') :
            /\ gamesCopy'[k].date = games'[k].date
            /\ gamesCopy'[k].slot = games'[k].slot
            /\ {gamesCopy'[k].home, gamesCopy'[k].away} = {games'[k].home, games'[k].away}]_vars

\* the optimizer has returned a list in which it flipped a game
C10_FlippedListReturned ==
    /\ optPc = "done"
    /\ flips > 0
    /\ \E k \in 1..Len(games) :
         gamesCopy[k].home = games[k].away /\ gamesCopy[k].away = games[k].home

-----------------------------------------------------------------------------
(* Properties of the schedule generateBalancedSchedule returns *)

Returned == pc = "returned"

\* the number of games of gs between teams a and b
Meetings(gs, a, b) ==
    Cardinality({k \in 1..Len(gs) : {gs[k].home, gs[k].away} = {a, b}})

\* C1: in every returned schedule each unordered pair of distinct teams appears
\* together in exactly gamesPerPair games, whatever the lock requirements and the
\* random choices.
C1_EveryPairMeetsGamesPerPair ==
    Returned =>
        \A a \in Range(teams), b \in Range(teams) :
            a # b => Meetings(result.games, a, b) = gamesPerPair

\* C2: in every returned schedule no team appears, as home or away, in two games
\* that share a date; also for locked slots and after the optimizer has run.
C2_NoTeamTwiceOnADate ==
    Returned =>
        \A j \in 1..Len(result.games), k \in 1..Len(result.games) :
            (j < k /\ result.games[j].date = result.games[k].date) =>
                {result.games[j].home, result.games[j].away}
                    \cap {result.games[k].home, result.games[k].away} = {}

\* a schedule with locked slots and two games on one date is returned after the
\* optimizer flipped games
C2_SameDateGamesReturned ==
    /\ Returned
    /\ result.homeAwayFlips > 0
    /\ lockRequirements # [k \in {} |-> NoLock]
    /\ \E j \in 1..Len(result.games), k \in 1..Len(result.games) :
         j < k /\ result.games[j].date = result.games[k].date

\* C3: in every returned schedule the game placed in a slot whose lock has a
\* non-empty required-team set has every required team as its home or away team,
\* also when the lock names explicit home/away teams.
C3_LockedSlotHoldsRequiredTeams ==
    Returned =>
        \A k \in 1..Len(slots) :
            slots[k].index \in DOMAIN lockRequirements =>
                lockRequirements[slots[k].index].requiredTeams
                    \subseteq {result.games[k].home, result.games[k].away}

\* C4: every returned schedule has exactly slots.length games and its i-th game
\* carries the date and the slot label of the i-th input slot, also after
\* optimizer flips.
C4_GamesFollowSlots ==
    Returned =>
        /\ Len(result.games) = Len(slots)
        /\ \A k \in 1..Len(slots) :
             /\ result.games[k].date = slots[k].date
             /\ result.games[k].slot = slots[k].slot

\* a schedule is returned in which the optimizer flipped a game of a slot that
\* does not carry the target label
C4_FlippedScheduleReturned ==
    /\ Returned
    /\ result.homeAwayFlips > 0
    /\ \E k \in 1..Len(slots) :
         /\ slots[k].slot # DEFAULT_TARGET_SLOT
         /\ result.games[k].home = games[k].away
         /\ result.games[k].away = games[k].home

\* the number of games of gs in the target slot in which team t plays
TargetAppearances(gs, t) ==
    Cardinality({k \in 1..Len(gs) :
                    gs[k].slot = DEFAULT_TARGET_SLOT /\ t \in {gs[k].home, gs[k].away}})

\* C5: in every schedule returned without lock requirements each team's number of
\* appearances in target slots is at least floor(2T/n) and at most ceil(2T/n), T
\* the number of target slots and n the number of teams.
C5_TargetAppearancesInRange ==
    (Returned /\ DOMAIN lockRequirements = {}) =>
        LET T == Cardinality({k \in 1..Len(slots) : slots[k].slot = DEFAULT_TARGET_SLOT})
            n == Cardinality(Range(teams))
        IN \A t \in Range(teams) :
              /\ TargetAppearances(result.games, t) >= (2 * T) \div n
              /\ TargetAppearances(result.games, t) <= (2 * T + n - 1) \div n

\* C11: in the returned record the per-team home and away counts are those of the
\* returned game list: for every team, homeAwayCounts.home is the number of
\* returned games in which it is home and homeAwayCounts.away the number in which
\* it is away, also when the optimizer flipped games.
C11_CountsMatchReturnedGames ==
    Returned =>
        \A t \in Range(teams) :
            /\ result.homeAwayCounts.home[t] = HomeGames(result.games, t)
            /\ result.homeAwayCounts.away[t] = AwayGames(result.games, t)

-----------------------------------------------------------------------------
(* Properties of the retry loop of generateBalancedSchedule *)

\* failure records 1..n are those of attempts 0..n-1, in attempt order
FailuresOfFirst(fs, n) ==
    /\ Len(fs) = n
    /\ \A j \in 1..n : fs[j].attempt = j /\ fs[j].seed = j - 1

\* C12: attempts run in increasing order k = 0, 1, 2, ..., attempt k with the seed
\* made of k, and the first attempt that succeeds without doubleheaders is
\* returned: the record has attempts = k + 1 and the seed of attempt k, exactly
\* the k earlier attempts are recorded as failures, its games are those attempt k
\* placed, and nothing runs after the return.
C12_FirstSuccessReturned ==
    [][/\ attempt' \in {attempt, attempt + 1}
       /\ pc # "returned"
       /\ (pc = "loop" /\ pc' = "slot") => FailuresOfFirst(failures, attempt)
       /\ pc' = "returned" =>
            /\ result'.attempts = attempt' + 1
            /\ result'.seed = attempt'
            /\ FailuresOfFirst(failures', attempt')
            /\ Len(result'.games) = Len(assignments')
            /\ \A k \in 1..Len(assignments') :
                 {result'.games[k].home, result'.games[k].away}
                     = {assignments'[k].home, assignments'[k].away}]_vars

\* a schedule is returned by the second attempt, after the first one failed
C12_SecondAttemptReturned ==
    /\ Returned
    /\ result.attempts = 2
    /\ Len(failures) = 1

Exhausted == pc = "exhausted"

\* C13: when none of the maxAttempts >= 1 attempts succeeds, the aggregate error
\* is thrown with the complete failures list: exactly maxAttempts records, record
\* j (from 0) with attempt number j + 1 and the seed of attempt j, in attempt
\* order, and the last failure it reports is the record of attempt maxAttempts.
C13_AllFailuresReported ==
    (Exhausted /\ maxAttempts >= 1) =>
        /\ error.kind = "Error"
        /\ error.attempts = maxAttempts
        /\ error.failures = failures
        /\ FailuresOfFirst(error.failures, maxAttempts)
        /\ error.lastFailure = error.failures[maxAttempts]
        /\ error.lastFailure.attempt = maxAttempts

\* two attempts have failed and the aggregate error is thrown
C13_TwoAttemptsExhausted ==
    /\ Exhausted
    /\ maxAttempts = 2
    /\ Len(error.failures) = 2

\* C14: for every input, maxAttempts = 0 included, the call either returns a
\* record or throws one of two errors: the input error (no teams, no slots) or
\* the aggregate error that carries the failures list; nothing else is thrown.
C14_OnlyTwoErrorKinds ==
    error # NoError =>
        \/ error = InputError("No teams provided for generation.")
        \/ error = InputError("No slots provided for generation.")
        \/ /\ error.kind = "Error"
           /\ "failures" \in DOMAIN error
           /\ error.failures = failures

\* C15: with no team left after de-duplication or with an empty slot list the
\* input error is thrown, whatever maxAttempts is, before any attempt: the call
\* goes from its start straight to the error, no attempt is started and no
\* failure record made.
C15_InputErrorBeforeAttempts ==
    (pc # "start" /\ (toTeamArray(teams) = <<>> \/ slots = <<>>)) =>
        /\ pc = "inputError"
        /\ error \in {InputError("No teams provided for generation."),
                      InputError("No slots provided for generation.")}
        /\ attempt = 0
        /\ failures = <<>>
        /\ result = NoResult
        /\ IdleAttempt
        /\ IdleOptimizer

\* the input error is thrown for an empty slot list with teams given and two
\* attempts allowed
C15_EmptySlotsRejected ==
    /\ pc = "inputError"
    /\ slots = <<>>
    /\ teams # <<>>
    /\ maxAttempts = 2

-----------------------------------------------------------------------------
(* Termination and flip count of optimizeHomeAwayBalance *)

\* position k of hs is position k of gs with home and away swapped, the other
\* positions are the same
SwappedAt(gs, hs, k) ==
    /\ hs[k] = [gs[k] EXCEPT !.home = gs[k].away, !.away = gs[k].home]
    /\ \A j \in 1..Len(gs) : j # k => hs[j] = gs[j]

\* C16: the optimizer terminates, without an error, with 0 <= flips <= maxFlips,
\* and its flip count is the number of swaps made on the returned list: the count
\* starts at 0 and goes up by one exactly in the steps that swap the sides of one
\* game; a loop that stalls early returns the count reached so far.
C16_TerminatesWithFlipCount ==
    /\ [](0 <= flips /\ flips <= maxFlips)
    /\ [][/\ flips' \in {flips, flips + 1}
          /\ Len(gamesCopy') = Len(gamesCopy)
          /\ flips' = flips + 1 =>
               \E k \in 1..Len(gamesCopy) : SwappedAt(gamesCopy, gamesCopy', k)
          /\ flips' = flips => gamesCopy' = gamesCopy]_vars
    /\ <>(optPc = "done")

\* the loop has stalled after at least one flip, below maxFlips and with an
\* imbalance left
C16_StalledWithPartialCount ==
    /\ optPc = "done"
    /\ 0 < flips
    /\ flips < maxFlips
    /\ TotalGap(gamesCopy) > 0

\* some team is in the required-team set of the locks of two slots of one date
SameDayForced ==
    \E j \in 1..Len(slots), k \in 1..Len(slots) :
        /\ j < k
        /\ slots[j].date = slots[k].date
        /\ SlotLock(lockRequirements, slots[j]).requiredTeams
              \cap SlotLock(lockRequirements, slots[k]).requiredTeams # {}

\* C17: when the locks require one team in two slots of the same date, every
\* attempt fails and the call ends in the aggregate error, whatever the random
\* choices and maxAttempts >= 1: no schedule is returned.
C17_SameDayLocksExhaust ==
    (SameDayForced /\ maxAttempts >= 1) => pc \in {"start", "loop", "slot", "exhausted"}

-----------------------------------------------------------------------------
(* Scenario: four teams, six target slots on six dates, no locks *)

SixTargetDates ==
    /\ Range(teams) = {"A", "B", "C", "D"}
    /\ gamesPerPair = 1
    /\ Len(slots) = 6
    /\ \A k \in 1..6 : slots[k].slot = DEFAULT_TARGET_SLOT
    /\ \A j \in 1..6, k \in 1..6 : j # k => slots[j].date # slots[k].date
    /\ DOMAIN lockRequirements = {}

\* the Monday of the week of date d, counted on the dates themselves
MondayOf(d) == d - (d % 7)

\* no Monday-based calendar week holds more than two of the slots
AtMostTwoPerWeek ==
    \A k \in 1..Len(slots) :
        Cardinality({j \in 1..Len(slots) :
                        MondayOf(slots[j].date) = MondayOf(slots[k].date)}) <= 2

\* the call does not fail, and a returned schedule has every pair once and every
\* team three times in the target slot
SixDatesOutcome ==
    /\ pc \notin {"inputError", "exhausted", "typeError"}
    /\ failures = <<>>
    /\ Returned =>
         /\ \A a \in Range(teams), b \in Range(teams) :
              a # b => Meetings(result.games, a, b) = 1
         /\ \A t \in Range(teams) :
              /\ TargetAppearances(result.games, t) = 3
              /\ result.stats.targetCounts[t] = 3

\* C18: with teams A,B,C,D, gamesPerPair 1, six target slots on six distinct
\* dates and no locks, generation succeeds for every outcome of the random
\* choices, and the schedule has each of the 6 pairs once and each team 3 times
\* in the target slot.
C18_SixDatesSucceed == SixTargetDates => SixDatesOutcome

\* C18 with the dates it needs: the same, for six dates of which no calendar week
\* holds more than two.
C18_SixDatesSucceed_spreadDates == (SixTargetDates /\ AtMostTwoPerWeek) => SixDatesOutcome

\* a schedule is returned for six dates that lie two in each of three weeks
C18_TwoPerWeekReturned ==
    /\ Returned
    /\ SixTargetDates
    /\ AtMostTwoPerWeek
    /\ \E j \in 1..6, k \in 1..6 :
         j # k /\ MondayOf(slots[j].date) = MondayOf(slots[k].date)

-----------------------------------------------------------------------------
(* Properties of the analysis functions *)

\* the number of games of gs in the target slot in which team t plays, for the
\* teams that have one
TargetCountsOf(gs) ==
    {TargetAppearances(gs, t) : t \in {x \in TeamsIn(gs) : TargetAppearances(gs, x) > 0}}

\* the largest minus the smallest element of a non-empty set of numbers
Spread(S) ==
    (CHOOSE c \in S : \A d \in S : c >= d) - (CHOOSE c \in S : \A d \in S : c <= d)

GamesOn(gs, d, t) ==
    Cardinality({k \in 1..Len(gs) : gs[k].date = d /\ t \in {gs[k].home, gs[k].away}})

\* C20: verifyNoDoubleheaders returns valid = true exactly when no team plays in
\* more than one game of a date, and its violations are one per date and team
\* with more than one game, gameCount being the team's games on that date.
C20_ViolationsPerDateAndTeam ==
    pc = "verified" =>
        LET dates == {games[k].date : k \in 1..Len(games)}
        IN /\ result.valid = (\A d \in dates, t \in TeamsIn(games) : GamesOn(games, d, t) <= 1)
           /\ result.violations =
                {[date |-> x[1], team |-> x[2], gameCount |-> GamesOn(games, x[1], x[2])] :
                    x \in {y \in dates \X TeamsIn(games) : GamesOn(games, y[1], y[2]) > 1}}

\* a list in which a team plays three games on one date has been found invalid
C20_TripleDateReported ==
    /\ pc = "verified"
    /\ ~result.valid
    /\ \E v \in result.violations : v.gameCount = 3

-----------------------------------------------------------------------------
(* Properties of the filters of selectPair, stated on the games placed *)

\* slot number k (1-based position) has a lock with a non-empty required-team set
Forced(k) == SlotLock(lockRequirements, slots[k]).requiredTeams # {}

\* the teams named in the required-team set of some lock requirement
LockedTeams == UNION {lockRequirements[k].requiredTeams : k \in DOMAIN lockRequirements}

\* C21: in every attempt a team that is in the required-team set of some lock
\* requirement is never placed in a slot that is not forced (no lock, or a lock
\* with an empty required-team set), so that in a returned schedule every game of
\* such a team lies in a forced slot.
C21_LockedTeamsOnlyInForcedSlots ==
    /\ \A k \in 1..Len(assignments) :
          ~Forced(k) => {assignments[k].away, assignments[k].home} \cap LockedTeams = {}
    /\ Returned =>
          \A k \in 1..Len(result.games) :
             ~Forced(k) => {result.games[k].away, result.games[k].home} \cap LockedTeams = {}

\* C22: the target-count cap applies only in unforced slots that carry the target
\* label: in an unforced slot with another label no pair is rejected because of
\* its teams' target-slot counts, also when a forced slot has pushed a team's
\* count above the maximum.
C22_CapOnlyInTargetSlots ==
    (pc = "slot" /\ i < Len(slots) /\ ~Forced(i + 1)
        /\ slots[i + 1].slot # DEFAULT_TARGET_SLOT) =>
        \A k \in 1..Len(pairs) : Rejection(pairs[k], SelectArgs(i)) # "wouldExceed"

\* the number of games among the first n of gs, in the calendar week of date d,
\* in which team t plays
GamesInWeekBefore(gs, n, d, t) ==
    Cardinality({j \in 1..n : /\ MondayOf(gs[j].date) = MondayOf(d)
                              /\ t \in {gs[j].away, gs[j].home}})

\* C23: at every step of an attempt a team that already has 2 games in the
\* Monday-based calendar week of the current slot is not placed in an unforced
\* slot, so that only forced slots raise a team's weekly count to 3 or more, and
\* in a schedule returned without lock requirements no team plays more than 2
\* games in a calendar week.
C23_WeeklyCapInUnforcedSlots ==
    /\ \A k \in 1..Len(assignments) :
          ~Forced(k) =>
             \A t \in {assignments[k].away, assignments[k].home} :
                GamesInWeekBefore(assignments, k - 1, assignments[k].date, t) < 2
    /\ (Returned /\ DOMAIN lockRequirements = {}) =>
          \A k \in 1..Len(result.games) :
             \A t \in {result.games[k].away, result.games[k].home} :
                GamesInWeekBefore(result.games, Len(result.games),
                                  result.games[k].date, t) <= 2

-----------------------------------------------------------------------------
(* Properties of the team selection of optimizeHomeAwayBalance *)

\* the teams of gs whose |home - away| is the largest one
MostImbalanced(gs) == {t \in TeamsIn(gs) : \A u \in TeamsIn(gs) : HomeAwayGap(gs, u) <= HomeAwayGap(gs, t)}

\* C24: in an iteration in which the selected most-imbalanced team has no
\* eligible flip the optimizer stops and returns; it makes no flip for another,
\* less imbalanced team: every flip is made in an iteration in which a team of
\* the largest imbalance has a candidate.
C24_StopsWhenSelectedTeamStuck ==
    [][flips' = flips + 1 =>
         \E t \in MostImbalanced(gamesCopy) :
            Candidates(gamesCopy, lockRequirements, computeHomeAwayBalance(gamesCopy), t) # <<>>]_vars

\* the first entry of the sorted list `imbalanced`: the team the for-of loop of
\* the iteration starts with
FirstImbalanced(gs) == Imbalanced(gs, computeHomeAwayBalance(gs))[1]

\* the member of the set S of team names that comes first in name order
NameFirst(S) ==
    TeamNames[CHOOSE k \in 1..Len(TeamNames) :
                 /\ TeamNames[k] \in S
                 /\ \A m \in 1..(k - 1) : TeamNames[m] \notin S]

\* C25: in each iteration the optimizer selects the team with the largest
\* |home - away|, and among several teams of the largest imbalance the one that
\* comes first in name order, whatever the order in which the teams first appear
\* in the game list.
C25_SelectsNameFirstOfLargest ==
    (OptLoopOn /\ TotalGap(gamesCopy) > 0) =>
        FirstImbalanced(gamesCopy) = NameFirst(MostImbalanced(gamesCopy))

-----------------------------------------------------------------------------
(* Properties of the explicit sides of a lock *)

\* the lock of slot number k (1-based position), looked up by the slot's ordinal
\* index, names both an away and a home team
Pinned(k) ==
    /\ SlotLock(lockRequirements, slots[k]).away # NoTeam
    /\ SlotLock(lockRequirements, slots[k]).home # NoTeam

\* C26: the optimizer never flips a game that is fully pinned by a lock: the game
\* of every slot whose lock requirement, looked up by the slot's ordinal index,
\* names both an away and a home team has the same home and away after
\* optimizeHomeAwayBalance as before, also when ordinal indices differ from the
\* positions in the slot list.
C26_PinnedGamesKeepSides ==
    /\ (pc = "optimize" /\ optPc # "idle") =>
          \A k \in 1..Len(slots) : Pinned(k) => gamesCopy[k] = games[k]
    /\ (Returned /\ optimizeHomeAway) =>
          \A k \in 1..Len(slots) : Pinned(k) => result.games[k] = assignments[k]

\* C27: explicit lock roles survive to the output: in every returned schedule the
\* game of a slot whose lock names an away team has that team as its away team,
\* the game of a slot whose lock names a home team has that team as its home
\* team, and the two sides of such a game are different teams; also when the lock
\* names one side only, and after the optimizer has run.
C27_LockRolesInReturnedGames ==
    Returned =>
        \A k \in 1..Len(slots) :
            LET lock == SlotLock(lockRequirements, slots[k])
                game == result.games[k]
            IN /\ lock.away # NoTeam => game.away = lock.away
               /\ lock.home # NoTeam => game.home = lock.home
               /\ (lock.away # NoTeam \/ lock.home # NoTeam) => game.away # game.home

\* C28: assignGame always returns a game made of exactly the two teams of the
\* selected pair: in every step that places a game, for any lock of the slot, the
\* game's away and home teams are different and are the two teams of the entry
\* selectPair returned (the entry whose remaining count the step decrements).
C28_GameMadeOfSelectedPair ==
    [][Len(assignments') = Len(assignments) + 1 =>
         LET game == assignments'[Len(assignments')]
         IN /\ game.away # game.home
            /\ \E k \in 1..Len(pairs) :
                  /\ pairs'[k].remaining = pairs[k].remaining - 1
                  /\ {game.away, game.home} = Range(pairs[k].teams)]_vars

-----------------------------------------------------------------------------
(* Properties of the state of an attempt *)

\* the sum of remaining over the entries of ps that contain team t
RemainingOf(ps, t) ==
    SumOver({k \in 1..Len(ps) : t \in Range(ps[k].teams)},
            [k \in 1..Len(ps) |-> ps[k].remaining])

\* the number of games taken off the ledger ps so far
TakenOff(ps) ==
    SumOver(1..Len(ps), [k \in 1..Len(ps) |-> gamesPerPair - ps[k].remaining])

\* C29: pair-ledger invariant: after any number of slot assignments within an
\* attempt every pair's remaining counter is between 0 and gamesPerPair,
\* gamesPerPair - remaining is the number of games assigned so far whose two
\* teams are that pair, one counter goes down by one per filled slot (the
\* counters have gone down by the number of filled slots in all), and each team's
\* remaining-needed count is the sum of remaining over the pairs that contain it.
C29_PairLedger ==
    pc = "slot" =>
        /\ \A k \in 1..Len(pairs) :
              /\ 0 <= pairs[k].remaining
              /\ pairs[k].remaining <= gamesPerPair
              /\ gamesPerPair - pairs[k].remaining
                    = Meetings(assignments, pairs[k].teams[1], pairs[k].teams[2])
        /\ TakenOff(pairs) = Len(assignments)
        /\ Len(assignments) = i
        /\ \A t \in DOMAIN teamGamesRemaining :
              teamGamesRemaining[t] = RemainingOf(pairs, t)

\* C30: an attempt fails at once at the first slot i for which no pair is
\* eligible: the failure record has slotIndex = i, its partial game list is
\* exactly the i games placed in slots 0..i-1, in order, and no slot after i is
\* processed in that attempt (the step that records the failure ends the
\* attempt; the slots are taken one by one in order until then).
C30_FailsAtFirstSlotWithoutPair ==
    [][/\ (Len(failures') = Len(failures) + 1
            /\ failures'[Len(failures')].reason = "noMatchup") =>
             LET failure == failures'[Len(failures')]
             IN /\ pc = "slot" /\ pc' = "loop"
                /\ failure.slotIndex = i
                /\ i < Len(slots)
                /\ Eligible(pairs, SelectArgs(i)) = {}
                /\ Len(failure.partialGames) = i
                /\ failure.partialGames = assignments
                /\ \A k \in 1..i :
                      /\ failure.partialGames[k].date = slots[k].date
                      /\ failure.partialGames[k].slot = slots[k].slot
                /\ assignments' = assignments
                /\ i' = i
       /\ Len(assignments') = Len(assignments) + 1 =>
             /\ Len(assignments) = i
             /\ i' = i + 1
             /\ SubSeq(assignments', 1, i) = assignments]_vars

\* an attempt has failed at a slot that is neither the first nor the last one
C30_FailedInMidList ==
    /\ failures # <<>>
    /\ failures[1].reason = "noMatchup"
    /\ failures[1].slotIndex >= 1
    /\ failures[1].slotIndex < Len(slots) - 1
    /\ Len(failures[1].partialGames) = failures[1].slotIndex

-----------------------------------------------------------------------------
(* Properties of the end of an attempt *)

\* the number of games to play: gamesPerPair x n(n-1)/2 for n distinct teams
GamesToPlay ==
    LET n == Cardinality(Range(teams))
    IN gamesPerPair * ((n * (n - 1)) \div 2)

\* C31: an attempt that fills every slot while some pair still has games
\* remaining is recorded as a failure with no slot index and a partial game list
\* of slots.length games; with the failure of a slot that finds no pair left this
\* means that no schedule is returned when slots.length differs from
\* gamesPerPair x n(n-1)/2, n the number of distinct teams.
C31_UnmetPairsFailTheAttempt ==
    /\ [](Returned => Len(slots) = GamesToPlay)
    /\ [][(pc = "slot" /\ i = Len(slots)
            /\ \E k \in 1..Len(pairs) : pairs[k].remaining > 0) =>
              /\ pc' = "loop"
              /\ Len(failures') = Len(failures) + 1
              /\ failures'[Len(failures')].reason = "unassigned"
              /\ failures'[Len(failures')].slotIndex = NoSlot
              /\ failures'[Len(failures')].partialGames = assignments
              /\ Len(failures'[Len(failures')].partialGames) = Len(slots)
              /\ result' = result]_vars

\* an attempt on fewer slots than games to play has filled every slot and failed
C31_TooFewSlotsFailed ==
    /\ failures # <<>>
    /\ failures[1].reason = "unassigned"
    /\ failures[1].slotIndex = NoSlot
    /\ Len(slots) >= 2
    /\ Len(slots) < GamesToPlay
    /\ Len(failures[1].partialGames) = Len(slots)

\* C32: no state is shared across attempts: every attempt starts with each
\* pair's remaining equal to gamesPerPair, all target, home/away and weekly counts
\* at zero and empty per-date played sets, however many attempts failed before and
\* however far they got; no step of an attempt or of the optimizer changes the
\* slot list or the lock requirements, and the partial game list of a failure
\* record is not changed by later attempts.
C32_AttemptsShareNoState ==
    [][/\ slots' = slots
       /\ lockRequirements' = lockRequirements
       /\ Len(failures') >= Len(failures)
       /\ \A k \in 1..Len(failures) : failures'[k] = failures[k]
       /\ (pc = "loop" /\ pc' = "slot") =>
             /\ \A k \in 1..Len(pairs') : pairs'[k].remaining = gamesPerPair
             /\ \A t \in DOMAIN teamTargetCounts' : teamTargetCounts'[t] = 0
             /\ \A t \in DOMAIN homeAwayCounts'.home : homeAwayCounts'.home[t] = 0
             /\ \A t \in DOMAIN homeAwayCounts'.away : homeAwayCounts'.away[t] = 0
             /\ \A w \in DOMAIN teamsByWeek' : \A t \in DOMAIN teamsByWeek'[w] :
                   teamsByWeek'[w][t] = 0
             /\ \A d \in DOMAIN teamsByDate' : teamsByDate'[d] = {}
             /\ assignments' = <<>>
             /\ i' = 0]_vars

\* a second attempt has placed a game of its own after a first attempt failed
\* with games placed, and the record of the first attempt holds other games
C32_SecondAttemptUnderWay ==
    /\ pc = "slot"
    /\ Len(failures) = 1
    /\ Len(failures[1].partialGames) >= 1
    /\ i >= 1
    /\ assignments[1] # failures[1].partialGames[1]
    /\ \E k \in 1..Len(pairs) : pairs[k].remaining = gamesPerPair

-----------------------------------------------------------------------------
(* Properties of assignGame *)

\* home games minus away games of team t in the first n games of gs
Differential(gs, n, t) ==
    HomeGames(SubSeq(gs, 1, n), t) - AwayGames(SubSeq(gs, 1, n), t)

\* the lock of slot k names exactly one required team and no side
SingleTeamLock(k) ==
    LET lock == SlotLock(lockRequirements, slots[k])
    IN /\ ~lock.none
       /\ Cardinality(lock.requiredTeams) = 1
       /\ lock.away = NoTeam
       /\ lock.home = NoTeam

\* C33: when the lock of a slot names exactly one required team and neither a
\* home nor an away side, the game assignGame returns contains the required team
\* and has it as the away team, whatever the home/away differentials of the two
\* teams and whatever the coin flip.
C33_SingleRequiredTeamIsAway ==
    \A k \in 1..Len(assignments) :
        SingleTeamLock(k) =>
            \A req \in SlotLock(lockRequirements, slots[k]).requiredTeams :
                /\ assignments[k].away = req
                /\ assignments[k].home # req

\* a game in a slot locked to one team where the differentials before the game
\* differ by more than 1 and the required team, having the lower one, would be
\* the home team by balance
C33_AwayAgainstBalance ==
    \E k \in 1..Len(assignments) :
        /\ SingleTeamLock(k)
        /\ assignments[k].away \in SlotLock(lockRequirements, slots[k]).requiredTeams
        /\ Differential(assignments, k - 1, assignments[k].away) + 1
             < Differential(assignments, k - 1, assignments[k].home)

\* slot k has no lock requirement
Unlocked(k) == SlotLock(lockRequirements, slots[k]).none

\* the differentials of the two teams of game k of gs before that game differ by
\* more than 1
FarApart(gs, k) ==
    Abs(Differential(gs, k - 1, gs[k].home) - Differential(gs, k - 1, gs[k].away)) > 1

\* C34: in a slot without a lock assignGame decides the roles from the running
\* differentials d(team) = home - away: when they differ by more than 1 the team
\* with the lower differential is the home team, never the other one; otherwise
\* the coin flip decides, and both role assignments occur.
C34_LowerDifferentialAtHome ==
    /\ [](\A k \in 1..Len(assignments) :
            (Unlocked(k) /\ FarApart(assignments, k)) =>
                Differential(assignments, k - 1, assignments[k].home)
                  < Differential(assignments, k - 1, assignments[k].away))
    /\ [][(pc = "slot" /\ pc' = "slot" /\ i' = i + 1) =>
            /\ Len(assignments') = i'
            /\ (Unlocked(i') /\ ~FarApart(assignments', i')) =>
                  \E k \in 1..Len(pairs) :
                      /\ pairs'[k].remaining = pairs[k].remaining - 1
                      /\ {assignments'[i'].home, assignments'[i'].away}
                           = Range(pairs[k].teams)]_vars

\* an attempt without locks in which the coin flip made the first team of its
\* pair the away team in one game and the home team in another, and a third game
\* was decided by differentials more than 1 apart
C34_BothCoinSidesAndBalance ==
    /\ Len(assignments) >= 3
    /\ \A k \in 1..Len(assignments) : Unlocked(k)
    /\ \E j, k, m \in 1..Len(assignments) :
          /\ ~FarApart(assignments, j)
          /\ ~FarApart(assignments, k)
          /\ FarApart(assignments, m)
          /\ \E e \in 1..Len(pairs) : /\ assignments[j].away = pairs[e].teams[1]
                                      /\ assignments[j].home = pairs[e].teams[2]
          /\ \E e \in 1..Len(pairs) : /\ assignments[k].away = pairs[e].teams[2]
                                      /\ assignments[k].home = pairs[e].teams[1]

-----------------------------------------------------------------------------
(* Properties of selectPair called on its own, for slot 0 *)

\* entry k passes every eligibility filter for the slot being filled
PassesFilters(k) ==
    LET slot == slots[i + 1]
        required == SlotLock(lockRequirements, slot).requiredTeams
        pair == Range(pairs[k].teams)
        week == GetOr(teamsByWeek, getWeekKey(slot.date), NoCounts)
        delta == IF slot.slot = DEFAULT_TARGET_SLOT THEN 1 ELSE 0
    IN /\ pairs[k].remaining > 0
       /\ required \subseteq pair
       /\ pair \cap GetOr(teamsByDate, slot.date, {}) = {}
       /\ required = {} =>
             /\ pair \cap LockedTeams = {}
             /\ \A t \in pair : GetOr(week, t, 0) < 2
             /\ \A t \in pair : teamTargetCounts[t] + delta <= MaxTarget

\* the score of entry k with the jitter drawn for it in the call
ScoreIn(k) == Score(pairs[k], SelectArgs(i), result.jitter[k])

\* C35: selectPair returns none if and only if no pair passes all eligibility
\* filters (remaining > 0, contains all forced teams, neither team played today,
\* and in unforced slots no locked team, weekly count below 2 for both teams,
\* target cap not exceeded); a pair it returns passes all filters, and no other
\* eligible pair has a strictly higher score.
C35_SelectsAnEligibleBest ==
    pc = "selected" =>
        /\ result.selected = 0 <=> \A k \in 1..Len(pairs) : ~PassesFilters(k)
        /\ result.selected # 0 =>
              /\ result.selected \in 1..Len(pairs)
              /\ PassesFilters(result.selected)
              /\ \A k \in 1..Len(pairs) :
                    PassesFilters(k) => ScoreIn(k) <= ScoreIn(result.selected)

\* a call that returned an entry although another entry with more games
\* remaining passed the filters too, and a third one was filtered out
C35_BestIsNotMostRemaining ==
    /\ pc = "selected"
    /\ result.selected # 0
    /\ \E k, m \in 1..Len(pairs) :
          /\ PassesFilters(k)
          /\ pairs[k].remaining > pairs[result.selected].remaining
          /\ ScoreIn(k) < ScoreIn(result.selected)
          /\ pairs[m].remaining > 0
          /\ ~PassesFilters(m)

-----------------------------------------------------------------------------
(* The opponent in a flip *)

\* team t has more away than home games in gs
AwayHeavy(gs, t) == AwayGames(gs, t) > HomeGames(gs, t)

\* team t has more home than away games in gs
HomeHeavy(gs, t) == HomeGames(gs, t) > AwayGames(gs, t)

\* C36: a flip is only chosen when it does not worsen an opponent already
\* imbalanced in the same direction: when the selected team is moved from away
\* to home, the opponent (moved from home to away) does not have away > home
\* before the flip, and when the selected team is moved from home to away, the
\* opponent does not have home > away before the flip.
C36_FlipSparesOpponent ==
    [][flips' = flips + 1 =>
         \E k \in 1..Len(gamesCopy) :
            /\ gamesCopy'[k] # gamesCopy[k]
            /\ \/ /\ AwayHeavy(gamesCopy, gamesCopy[k].away)
                  /\ ~AwayHeavy(gamesCopy, gamesCopy[k].home)
               \/ /\ HomeHeavy(gamesCopy, gamesCopy[k].home)
                  /\ ~HomeHeavy(gamesCopy, gamesCopy[k].away)]_vars

\* after one flip: a game between two teams that both had more away than home
\* games, or both more home than away games, in the input is still as it was,
\* and the game that was flipped is another one
C36_SameSidedGameLeftAlone ==
    /\ flips = 1
    /\ Len(games) = Len(gamesCopy)
    /\ Cardinality(TeamsIn(games)) = 4
    /\ \E k, m \in 1..Len(games) :
          /\ gamesCopy[k] # games[k]
          /\ gamesCopy[m] = games[m]
          /\ GameLock(lockRequirements, Len(games), m - 1).none
          /\ \/ AwayHeavy(games, games[m].away) /\ AwayHeavy(games, games[m].home)
             \/ HomeHeavy(games, games[m].away) /\ HomeHeavy(games, games[m].home)

-----------------------------------------------------------------------------
(* Termination of generateBalancedSchedule *)

\* the call has returned or thrown
Terminated == pc \in {"returned", "inputError", "typeError", "exhausted"}

\* C37: every call of generateBalancedSchedule terminates (returns or throws);
\* it runs at most maxAttempts attempts, each attempt makes at most slots.length
\* slot assignments, and the optimizer runs at most once per call, only after an
\* attempt has succeeded and passed the doubleheader check, making at most 100
\* flips.
C37_CallTerminates ==
    /\ <>Terminated
    /\ [](/\ attempt <= maxAttempts
          /\ Len(failures) <= maxAttempts
          /\ pc = "slot" => attempt < maxAttempts
          /\ Len(assignments) <= Len(slots)
          /\ i <= Len(slots)
          /\ flips <= 100)
    /\ [][/\ optPc # "idle" => optPc' # "idle"
          /\ optPc = "done" => (optPc' = "done" /\ flips' = flips /\ gamesCopy' = gamesCopy)
          /\ (optPc = "idle" /\ optPc' # "idle") =>
                /\ pc = "slot"
                /\ i = Len(slots)
                /\ \A k \in 1..Len(pairs) : pairs[k].remaining = 0
                /\ \A j, k \in 1..Len(assignments) :
                      (j # k /\ assignments[j].date = assignments[k].date) =>
                          {assignments[j].home, assignments[j].away}
                            \cap {assignments[k].home, assignments[k].away} = {}
                /\ games' = assignments
                /\ flips' = 0
          /\ Len(assignments') <= Len(assignments) + 1
          /\ attempt' \in {attempt, attempt + 1}]_vars

\* a call that failed its first attempt, succeeded in the second and returned
\* after the optimizer made flips
C37_ReturnedAfterRetryAndFlips ==
    /\ pc = "returned"
    /\ Len(failures) = 1
    /\ attempt = 1
    /\ flips > 0
    /\ optPc = "done"

====
